---------------------------- MODULE Spec2Model ----------------------------
(***************************************************************************)
(* A model of src/app.py: the PA-API 5.0 request signer                    *)
(* (sign_paapi_request), the module start-up diagnostics and the           *)
(* /api/search handler (search_products).                                  *)
(*                                                                         *)
(* A Python str is a finite sequence of tokens (each token a TLA+ string   *)
(* standing for one or more characters); str concatenation is \o.  The     *)
(* access key is a sequence of one-character tokens so that slicing is     *)
(* modelled as slicing.  SHA-256 and HMAC-SHA256 are uninterpreted: a      *)
(* digest is the bracketed term of its arguments, so two digests are equal *)
(* exactly when their arguments are.                                       *)
(***************************************************************************)
EXTENDS Integers, Sequences, FiniteSets, TLC

VARIABLES
    clock,      \* the wall clock read by datetime.utcnow(), in clock ticks
    sg,         \* sign_paapi_request: the frame of each running invocation
    cfg,        \* module globals ASSOCIATE_TAG, ACCESS_KEY_ID, SECRET_ACCESS_KEY
    log,        \* everything printed to standard output, one entry per print
    pc,         \* search_products: position of the handler
    data,       \* search_products: request.get_json()
    headers,    \* search_products: the headers returned by the signer
    signedBody, \* the payload_str whose digest the signer put in the canonical request
    sent,       \* the outbound requests.post call(s) of the current request
    upstream,   \* what requests.post / the upstream produced
    resp        \* what the handler returned (or the exception that left it)

vars == <<clock, sg, cfg, log, pc, data, headers, signedBody, sent, upstream, resp>>

---------------------------------------------------------------------------
(* Bounds of the model *)

MaxClock == 9          \* the clock ticks 0..MaxClock
TicksPerSecond == 2    \* clock ticks per second (utcnow() has sub-second resolution)
SecondsPerDay == 2     \* seconds per calendar day, scaled down
MaxKeyLen == 11        \* the longest access key identifier
MaxItems == 3          \* length of SearchResult.Items
MaxErrors == 2         \* length of an upstream Errors list

---------------------------------------------------------------------------
(* Python values *)

None == [isNone |-> TRUE, v |-> <<>>]
Some(s) == [isNone |-> FALSE, v |-> s]

\* bool(x) of an Optional[str]: None and '' are falsy
Truthy(x) == ~x.isNone /\ x.v # <<>>

EmptyMap == [k \in {} |-> <<>>]

RECURSIVE Join(_, _)
\* sep.join(parts), parts a sequence of strs
Join(parts, sep) ==
    IF parts = <<>> THEN <<>>
    ELSE IF Len(parts) = 1 THEN Head(parts)
    ELSE Head(parts) \o sep \o Join(Tail(parts), sep)

\* s[:n] and s[-n:] of a str
SlicePrefix(s, n) == SubSeq(s, 1, IF Len(s) < n THEN Len(s) ELSE n)
SliceSuffix(s, n) == SubSeq(s, IF Len(s) < n THEN 1 ELSE Len(s) - n + 1, Len(s))

\* needle occurs in hay as a contiguous substring
Contains(hay, needle) ==
    \E i \in 0..(Len(hay) - Len(needle)) :
        SubSeq(hay, i + 1, i + Len(needle)) = needle

---------------------------------------------------------------------------
(* json.dumps of the payload dict *)

JStr(s) == [type |-> "str", text |-> s, elems |-> <<>>]
JNum(s) == [type |-> "num", text |-> s, elems |-> <<>>]
JNull == [type |-> "null", text |-> <<>>, elems |-> <<>>]
JList(ss) == [type |-> "list", text |-> <<>>, elems |-> ss]

Quote(s) == <<"\"">> \o s \o <<"\"">>

dumps_value(v, item_sep) ==
    CASE v.type = "str" -> Quote(v.text)
      [] v.type = "num" -> v.text
      [] v.type = "null" -> <<"null">>
      [] v.type = "list" ->
            <<"[">> \o Join([i \in 1..Len(v.elems) |-> Quote(v.elems[i])], <<item_sep>>)
                    \o <<"]">>

\* json.dumps(payload, separators=(item_sep, key_sep)); payload a dict given as
\* its sequence of <<key, value>> pairs in insertion order
json_dumps(payload, item_sep, key_sep) ==
    <<"{">> \o Join([i \in 1..Len(payload) |->
                        Quote(payload[i][1]) \o <<key_sep>>
                            \o dumps_value(payload[i][2], item_sep)],
                    <<item_sep>>)
            \o <<"}">>

\* the separators=(',', ':') form of line 61
CompactDumps(payload) == json_dumps(payload, ",", ":")

\* json.dumps(payload) with the library defaults (', ', ': ')
DefaultDumps(payload) == json_dumps(payload, ", ", ": ")

---------------------------------------------------------------------------
(* hashlib / hmac, uninterpreted *)

sha256_hexdigest(s) == <<"sha256hex(">> \o s \o <<")">>

hmac_digest(key, msg) == <<"hmac(">> \o key \o <<"|">> \o msg \o <<")">>

hmac_hexdigest(key, msg) == <<"hex(">> \o hmac_digest(key, msg) \o <<")">>

---------------------------------------------------------------------------
(* datetime *)

DayOf(t) == t \div (TicksPerSecond * SecondsPerDay)
SecondOfDay(t) == (t \div TicksPerSecond) % SecondsPerDay

\* t.strftime('%Y%m%dT%H%M%SZ'): whole seconds, the sub-second part is dropped
strftime_amz(t) == <<ToString(DayOf(t)), "T", ToString(SecondOfDay(t)), "Z">>

\* t.strftime('%Y%m%d')
strftime_date(t) == <<ToString(DayOf(t))>>

---------------------------------------------------------------------------
(* sign_paapi_request, lines 51-106 *)

canonical_headers(host, amz_date) ==
    <<"host:">> \o host \o <<"\n">> \o <<"x-amz-date:">> \o amz_date \o <<"\n">>

signed_headers == <<"host;x-amz-date">>

payload_hash(payload) == sha256_hexdigest(CompactDumps(payload))

canonical_request_nopath(api_path, host, amz_date, payload) ==
    Join(<< <<"POST">>, <<>>, canonical_headers(host, amz_date),
            signed_headers, payload_hash(payload) >>, <<"\n">>)

canonical_request(api_path, host, amz_date, payload) ==
    Join(<< <<"POST">>, api_path, <<>>, canonical_headers(host, amz_date),
            signed_headers, payload_hash(payload) >>, <<"\n">>)

algorithm == <<"AWS4-HMAC-SHA256">>

credential_scope(date_stamp, region, service) ==
    Join(<<date_stamp, region, service, <<"aws4_request">> >>, <<"/">>)

string_to_sign(amz_date, scope, creq) ==
    Join(<<algorithm, amz_date, scope, sha256_hexdigest(creq)>>, <<"\n">>)

sign_key(key, msg) == hmac_digest(key, msg)

k_signing_hexkeys(secret_key, date_stamp, region, service) ==
    LET k_date == hmac_hexdigest(<<"AWS4">> \o secret_key, date_stamp)
        k_region == hmac_hexdigest(k_date, region)
        k_service == hmac_hexdigest(k_region, service)
    IN  sign_key(k_service, <<"aws4_request">>)

k_signing(secret_key, date_stamp, region, service) ==
    LET k_date == sign_key(<<"AWS4">> \o secret_key, date_stamp)
        k_region == sign_key(k_date, region)
        k_service == sign_key(k_region, service)
    IN  sign_key(k_service, <<"aws4_request">>)

authorization_header(access_key, scope, signature) ==
    algorithm \o <<" ">> \o <<"Credential=">> \o access_key \o <<"/">> \o scope
        \o <<", ">> \o <<"SignedHeaders=">> \o signed_headers \o <<", ">>
        \o <<"Signature=">> \o signature

make_headers(amz_date, service, authorization, host) ==
    ("Content-Type" :> <<"application/json; charset=utf-8">>)
        @@ ("X-Amz-Date" :> amz_date)
        @@ ("X-Amz-Target" :> service \o <<".SearchItems">>)
        @@ ("Authorization" :> authorization)
        @@ ("Host" :> host)

\* the whole function for one clock reading t (arguments are strs)
sign_paapi_request(access_key, secret_key, host, region, service, api_path, payload, t) ==
    LET amz_date == strftime_amz(t)
        date_stamp == strftime_date(t)
        creq == canonical_request(api_path, host, amz_date, payload)
        scope == credential_scope(date_stamp, region, service)
        sts == string_to_sign(amz_date, scope, creq)
        key == k_signing(secret_key, date_stamp, region, service)
        signature == hmac_hexdigest(key, sts)
    IN  make_headers(amz_date, service,
                     authorization_header(access_key, scope, signature), host)

---------------------------------------------------------------------------
(* Module globals, lines 19-24, and the request the handler builds *)

HOST == <<"webservices.amazon.in">>
REGION == <<"eu-west-1">>
SERVICE == <<"ProductAdvertisingAPI">>
ApiPath == <<"/paapi5/searchitems">>

\* the payload dict of lines 122-134; keywords a str, tag ASSOCIATE_TAG (may be None)
SearchPayload(keywords, tag) ==
    << <<<<"Keywords">>, JStr(keywords)>>,
       <<<<"SearchIndex">>, JStr(<<"All">>)>>,
       <<<<"PartnerTag">>, IF tag.isNone THEN JNull ELSE JStr(tag.v)>>,
       <<<<"PartnerType">>, JStr(<<"Associates">>)>>,
       <<<<"ItemCount">>, JNum(<<"10">>)>>,
       <<<<"Resources">>, JList(<< <<"Images.Primary.Medium">>, <<"ItemInfo.Title">>,
                                   <<"Offers.Listings.Price">>,
                                   <<"Offers.Listings.IsPrimeEligible">> >>)>> >>

KeyChars == <<"A", "K", "I", "D", "E", "X", "M", "P", "L", "Q", "R", "S", "T", "U", "V", "W">>

\* an access key identifier of n distinct characters
AccessKeyOfLen(n) == [i \in 1..n |-> KeyChars[((i - 1) % Len(KeyChars)) + 1]]

SecretKey == <<"w", "J", "a", "l", "r", "X", "U", "t">>
AssociateTag == <<"mytag-21">>

---------------------------------------------------------------------------
(* The signer as a process: one frame per running invocation *)

Calls == {"A", "B"}

BaseInput ==
    [access_key |-> AccessKeyOfLen(MaxKeyLen), secret_key |-> SecretKey, host |-> HOST,
     region |-> REGION, service |-> SERVICE, api_path |-> ApiPath,
     payload |-> SearchPayload(<<"shoes">>, Some(AssociateTag))]

\* the base invocation and the invocations differing from it in exactly one argument
SignInputs ==
    { BaseInput,
      [BaseInput EXCEPT !.access_key = <<"B">> \o @],
      [BaseInput EXCEPT !.secret_key = <<"x">> \o @],
      [BaseInput EXCEPT !.host = <<"webservices.amazon.com">>],
      [BaseInput EXCEPT !.region = <<"us-east-1">>],
      [BaseInput EXCEPT !.service = <<"OtherAPI">>],
      [BaseInput EXCEPT !.api_path = <<"/paapi5/getitems">>],
      [BaseInput EXCEPT !.payload = SearchPayload(<<"shoez">>, Some(AssociateTag))] }

IdleFrame ==
    [pc |-> "idle", in |-> BaseInput, t |-> 0, amz_date |-> <<>>, date_stamp |-> <<>>,
     payload_str |-> <<>>, signature |-> <<>>, headers |-> EmptyMap]

HandlerVars == <<cfg, log, pc, data, headers, signedBody, sent, upstream, resp>>

\* the clock advances on its own
Tick ==
    /\ clock < MaxClock
    /\ clock' = clock + 1
    /\ UNCHANGED <<sg, HandlerVars>>

\* a caller invokes sign_paapi_request(...)
SignEnter(c) ==
    /\ sg[c].pc = "idle"
    /\ \E in \in SignInputs : sg' = [sg EXCEPT ![c] = [IdleFrame EXCEPT !.pc = "entered", !.in = in]]
    /\ UNCHANGED <<clock, HandlerVars>>

\* line 52: t = datetime.datetime.utcnow()
SignReadClock(c) ==
    /\ sg[c].pc = "entered"
    /\ sg' = [sg EXCEPT ![c].pc = "clock", ![c].t = clock]
    /\ UNCHANGED <<clock, HandlerVars>>

DateStampTime_reread(c) == clock

\* the time value line 54 formats: the local t
DateStampTime(c) == sg[c].t

\* lines 53-54: both stamps are formatted from the local t
SignFormat(c) ==
    /\ sg[c].pc = "clock"
    /\ sg' = [sg EXCEPT ![c].pc = "formatted",
                        ![c].amz_date = strftime_amz(sg[c].t),
                        ![c].date_stamp = strftime_date(DateStampTime(c))]
    /\ UNCHANGED <<clock, HandlerVars>>

\* lines 56-90: canonical request, string to sign, key chain, signature
SignCompute(c) ==
    /\ sg[c].pc = "formatted"
    /\ LET f == sg[c]
           creq == canonical_request(f.in.api_path, f.in.host, f.amz_date, f.in.payload)
           scope == credential_scope(f.date_stamp, f.in.region, f.in.service)
           sts == string_to_sign(f.amz_date, scope, creq)
           key == k_signing(f.in.secret_key, f.date_stamp, f.in.region, f.in.service)
       IN  sg' = [sg EXCEPT ![c].pc = "computed",
                            ![c].payload_str = CompactDumps(f.in.payload),
                            ![c].signature = hmac_hexdigest(key, sts)]
    /\ UNCHANGED <<clock, HandlerVars>>

\* lines 92-106: the Authorization value and the returned dict
SignReturn(c) ==
    /\ sg[c].pc = "computed"
    /\ LET f == sg[c]
           scope == credential_scope(f.date_stamp, f.in.region, f.in.service)
       IN  sg' = [sg EXCEPT ![c].pc = "returned",
                            ![c].headers =
                                make_headers(f.amz_date, f.in.service,
                                    authorization_header(f.in.access_key, scope, f.signature),
                                    f.in.host)]
    /\ UNCHANGED <<clock, HandlerVars>>

---------------------------------------------------------------------------
(* Start-up diagnostics, lines 26-47 *)

ShownChars == 5    \* ACCESS_KEY_ID[:5] and ACCESS_KEY_ID[-5:]

\* line 28: f"ASSOCIATE_TAG: {ASSOCIATE_TAG}"
TagLine(tag) == <<"ASSOCIATE_TAG: ">> \o (IF tag.isNone THEN <<"None">> ELSE tag.v)

\* line 30: the first and the last five characters around '...'
AccessKeyLine(key) ==
    IF Truthy(key)
    THEN <<"ACCESS_KEY_ID: ">> \o SlicePrefix(key.v, ShownChars) \o <<"...">>
            \o SliceSuffix(key.v, ShownChars)
    ELSE <<"None">>

\* line 31
SecretKeyLine(key) ==
    IF Truthy(key) THEN <<"SECRET_ACCESS_KEY: ">> \o <<"***** (masked)">> ELSE <<"None">>

\* line 40: not all([ASSOCIATE_TAG, ACCESS_KEY_ID, SECRET_ACCESS_KEY])
CredentialsMissing(c) ==
    ~(Truthy(c.ASSOCIATE_TAG) /\ Truthy(c.ACCESS_KEY_ID) /\ Truthy(c.SECRET_ACCESS_KEY))

\* everything the module prints while it is imported
StartupLog(c) ==
    << <<"--- Environment Variable Check ---">>,
       TagLine(c.ASSOCIATE_TAG),
       AccessKeyLine(c.ACCESS_KEY_ID),
       SecretKeyLine(c.SECRET_ACCESS_KEY),
       <<"HOST: ">> \o HOST,
       <<"REGION: ">> \o REGION,
       <<"----------------------------------">> >>
    \o (IF CredentialsMissing(c)
        THEN << <<"CRITICAL ERROR: Missing Amazon API credentials in environment variables.">> >>
        ELSE <<>>)

AccessKeys ==
    {None, Some(<<>>)}
        \cup {Some(AccessKeyOfLen(n)) : n \in {1, ShownChars, ShownChars + 1, MaxKeyLen}}

Configs ==
    [ASSOCIATE_TAG : {None, Some(AssociateTag)},
     ACCESS_KEY_ID : AccessKeys,
     SECRET_ACCESS_KEY : {None, Some(SecretKey)}]

---------------------------------------------------------------------------
(* Requests, upstream outcomes and responses *)

\* request.get_json(): a JSON object with optional keywords / primeOnly, or not an object
ObjectBody(hasK, k, hasP, p) ==
    [kind |-> "object", hasKeywords |-> hasK, keywords |-> k,
     hasPrimeOnly |-> hasP, primeOnly |-> p]

RequestBodies ==
    {ObjectBody(hk, k, hp, p) :
        hk \in BOOLEAN, k \in {<<>>, <<"shoes">>}, hp \in BOOLEAN, p \in BOOLEAN}
        \cup {[ObjectBody(FALSE, <<>>, FALSE, FALSE) EXCEPT !.kind = kd] :
                kd \in {"null", "list", "scalar"}}

Listing(hasFlag, flag) == [hasIsPrimeEligible |-> hasFlag, IsPrimeEligible |-> flag]

Item(hasOffers, hasListings, listings) ==
    [hasOffers |-> hasOffers, hasListings |-> hasListings, Listings |-> listings]

ItemSamples ==
    { Item(FALSE, FALSE, <<>>),
      Item(TRUE, FALSE, <<>>),
      Item(TRUE, TRUE, <<>>),
      Item(TRUE, TRUE, <<Listing(FALSE, FALSE)>>),
      Item(TRUE, TRUE, <<Listing(TRUE, TRUE)>>),
      Item(TRUE, TRUE, <<Listing(TRUE, FALSE)>>),
      Item(TRUE, TRUE, <<Listing(TRUE, FALSE), Listing(TRUE, TRUE)>>) }

SeqsUpTo(S, n) == UNION {[1..k -> S] : k \in 0..n}

ErrorEntry(hasMessage, message) == [hasMessage |-> hasMessage, Message |-> message]

ErrorSamples ==
    {ErrorEntry(TRUE, <<"The request was denied due to request throttling.">>),
     ErrorEntry(FALSE, <<>>)}

Body(json, shape, hasSR, hasItems, items, hasErrors, errors) ==
    [json |-> json, shape |-> shape, hasSearchResult |-> hasSR, hasItems |-> hasItems,
     Items |-> items, hasErrors |-> hasErrors, Errors |-> errors]

PlainBodies ==
    { Body(FALSE, "text", FALSE, FALSE, <<>>, FALSE, <<>>),
      Body(TRUE, "list", FALSE, FALSE, <<>>, FALSE, <<>>),
      Body(TRUE, "number", FALSE, FALSE, <<>>, FALSE, <<>>),
      Body(TRUE, "object", FALSE, FALSE, <<>>, FALSE, <<>>),
      Body(TRUE, "object", TRUE, FALSE, <<>>, FALSE, <<>>) }

ItemBodies == {Body(TRUE, "object", TRUE, TRUE, is, FALSE, <<>>) : is \in SeqsUpTo(ItemSamples, MaxItems)}

ErrorBodies == {Body(TRUE, "object", FALSE, FALSE, <<>>, TRUE, es) : es \in SeqsUpTo(ErrorSamples, MaxErrors)}

OkStatus == 200
ErrorStatuses == {429, 503}

Outcome(transportError, status, body) ==
    [transportError |-> transportError, status |-> status, body |-> body]

NoUpstream == Outcome(FALSE, 0, Body(FALSE, "none", FALSE, FALSE, <<>>, FALSE, <<>>))

\* what requests.post can produce: no response at all, a 200 with any body, or an
\* error status with a body that is not a result list
UpstreamOutcomes ==
    {Outcome(TRUE, 0, NoUpstream.body)}
        \cup {Outcome(FALSE, OkStatus, b) : b \in PlainBodies \cup ItemBodies \cup ErrorBodies}
        \cup {Outcome(FALSE, st, b) : st \in ErrorStatuses, b \in PlainBodies \cup ErrorBodies}

NoResp ==
    [kind |-> "none", status |-> 0, Items |-> <<>>, TotalFilteredCount |-> 0,
     error |-> <<>>, exc |-> ""]

\* jsonify({"Items": ..., "TotalFilteredCount": ...}), status 200
ItemsResponse(items) == [NoResp EXCEPT !.kind = "items", !.status = 200, !.Items = items,
                                       !.TotalFilteredCount = Len(items)]

\* jsonify({"error": message}), status
ErrorResponse(status, message) == [NoResp EXCEPT !.kind = "error", !.status = status, !.error = message]

\* an exception that leaves search_products: the handler returned nothing and the
\* framework answers with its own 500 page
Escaped(exc) == [NoResp EXCEPT !.kind = "exception", !.status = 500, !.exc = exc]

---------------------------------------------------------------------------
(* search_products, lines 110-175 *)

\* dict.get('keywords') / dict.get('primeOnly', True)
KeywordsOf(d) == IF d.hasKeywords THEN Some(d.keywords) ELSE None
PrimeOnlyOf(d) == IF d.hasPrimeOnly THEN d.primeOnly ELSE TRUE

KeywordsMissing_onlyAbsent(d) == ~d.hasKeywords

\* line 116: not keywords
KeywordsMissing(d) == ~Truthy(KeywordsOf(d))

is_prime_eligible_anyListing(item) ==
    /\ item.hasOffers /\ item.hasListings
    /\ \E i \in 1..Len(item.Listings) :
          item.Listings[i].hasIsPrimeEligible /\ item.Listings[i].IsPrimeEligible

\* lines 146-150
is_prime_eligible(item) ==
    /\ item.hasOffers /\ item.hasListings /\ item.Listings # <<>>
    /\ LET first_listing == item.Listings[1]
       IN  first_listing.hasIsPrimeEligible /\ first_listing.IsPrimeEligible

RECURSIVE FilterLoop(_, _, _)
\* the for loop of lines 145-155, filtered_items as the accumulator
FilterLoop(items, prime_only, filtered_items) ==
    IF items = <<>> THEN filtered_items
    ELSE IF prime_only /\ ~is_prime_eligible(Head(items))
         THEN FilterLoop(Tail(items), prime_only, filtered_items)
         ELSE FilterLoop(Tail(items), prime_only, Append(filtered_items, Head(items)))

\* response.raise_for_status()
RaisesForStatus(status) == 400 <= status /\ status < 600

\* str(e) of the exceptions the handler formats
ConnectionErrorText == <<"HTTPSConnectionPool(host='">> \o HOST \o <<"', port=443): Max retries exceeded">>
HTTPErrorText(status) ==
    <<ToString(status), " Error for url: ", "https://">> \o HOST \o ApiPath
JSONErrorText == <<"Expecting value: line 1 column 1 (char 0)">>
NotIterableText == <<"argument of type 'int' is not iterable">>
ConcatNoneText == <<"can only concatenate str (not \"NoneType\") to str">>

\* response.text as it is printed; the upstream's own text
RawText(body) == <<"<upstream body: ", body.shape, ">">>

Result(r, prints) == [resp |-> r, prints |-> prints]

\* line 169
GenericFailure(etext) ==
    ErrorResponse(500, <<"Failed to connect to Amazon API or unhandled API error: ">> \o etext)

\* lines 159-169; hasResponse: e.response is not None, body: e.response's body
ExceptRequestException(etext, hasResponse, body) ==
    LET p1 == << <<"API Request Error: ">> \o etext >>
        p2 == p1 \o << <<"Amazon API Raw Response (error): ">> \o RawText(body) >>
    IN  IF ~hasResponse THEN Result(GenericFailure(etext), p1)
        ELSE IF ~body.json THEN Result(GenericFailure(etext), p2)
        ELSE IF body.shape = "list" THEN Result(GenericFailure(etext), p2)
        ELSE IF body.shape # "object" THEN Result(Escaped("TypeError"), p2)
        ELSE IF ~body.hasErrors THEN Result(GenericFailure(etext), p2)
        ELSE IF body.Errors = <<>> THEN Result(Escaped("IndexError"), p2)
        ELSE IF ~body.Errors[1].hasMessage THEN Result(Escaped("KeyError"), p2)
        ELSE Result(ErrorResponse(500, <<"Amazon API Error: ">> \o body.Errors[1].Message), p2)

\* lines 170-172
ExceptJSONDecodeError(body) ==
    Result(ErrorResponse(500, <<"Invalid JSON response from Amazon API. Please check backend logs.">>),
           << <<"JSON Decode Error: Response was not valid JSON. Raw response: ">> \o RawText(body) >>)

\* lines 173-175
ExceptException(etext) ==
    Result(ErrorResponse(500, <<"An unexpected server error occurred: ">> \o etext),
           << <<"An unexpected server error occurred: ">> \o etext >>)

\* lines 140-157 and the except clauses they reach, for the outcome o of requests.post;
\* jsonErrIsRequestException: whether the installed requests raises its own
\* JSONDecodeError (a RequestException) from response.json()
AfterPost(o, prime_only, jsonErrIsRequestException) ==
    IF o.transportError THEN ExceptRequestException(ConnectionErrorText, FALSE, o.body)
    ELSE IF RaisesForStatus(o.status)
         THEN ExceptRequestException(HTTPErrorText(o.status), TRUE, o.body)
    ELSE IF ~o.body.json
         THEN IF jsonErrIsRequestException
              THEN ExceptRequestException(JSONErrorText, FALSE, o.body)
              ELSE ExceptJSONDecodeError(o.body)
    ELSE IF o.body.shape = "number" THEN ExceptException(NotIterableText)
    ELSE IF o.body.shape = "object" /\ o.body.hasSearchResult /\ o.body.hasItems
         THEN Result(ItemsResponse(FilterLoop(o.body.Items, prime_only, <<>>)), <<>>)
    ELSE Result(ItemsResponse(<<>>), <<>>)

\* module import: the prints of lines 27-34 and 41-46
Startup ==
    /\ pc = "import"
    /\ log' = log \o StartupLog(cfg)
    /\ pc' = "idle"
    /\ UNCHANGED <<clock, sg, cfg, data, headers, signedBody, sent, upstream, resp>>

\* line 112: a POST /api/search arrives, data = request.get_json()
Receive ==
    /\ pc = "idle"
    /\ \E d \in RequestBodies : data' = d
    /\ pc' = "received"
    /\ UNCHANGED <<clock, sg, cfg, log, headers, signedBody, sent, upstream, resp>>

\* lines 113-117: data.get raises AttributeError outside the try when data is no dict
Validate ==
    /\ pc = "received"
    /\ IF data.kind # "object"
       THEN resp' = Escaped("AttributeError") /\ pc' = "done"
       ELSE IF KeywordsMissing(data)
            THEN resp' = ErrorResponse(400, <<"Keywords are required.">>) /\ pc' = "done"
            ELSE resp' = resp /\ pc' = "validated"
    /\ UNCHANGED <<clock, sg, cfg, log, data, headers, signedBody, sent, upstream>>

\* lines 119-137: build the payload and call the signer, which raises TypeError at
\* line 85 or 94 when a credential is None
Sign ==
    /\ pc = "validated"
    /\ LET payload == SearchPayload(data.keywords, cfg.ASSOCIATE_TAG)
       IN  IF cfg.SECRET_ACCESS_KEY.isNone \/ cfg.ACCESS_KEY_ID.isNone
           THEN LET r == ExceptException(ConcatNoneText)
                IN  /\ resp' = r.resp
                    /\ log' = log \o r.prints
                    /\ pc' = "done"
                    /\ UNCHANGED <<headers, signedBody>>
           ELSE /\ headers' = sign_paapi_request(cfg.ACCESS_KEY_ID.v, cfg.SECRET_ACCESS_KEY.v,
                                                 HOST, REGION, SERVICE, ApiPath, payload, clock)
                /\ signedBody' = CompactDumps(payload)
                /\ pc' = "signed"
                /\ UNCHANGED <<resp, log>>
    /\ UNCHANGED <<clock, sg, cfg, data, sent, upstream>>

\* line 139: data=json.dumps(payload)
SentBody(payload) == DefaultDumps(payload)

\* line 139: requests.post(api_endpoint, headers=headers, data=...)
Post ==
    /\ pc = "signed"
    /\ sent' = Append(sent, [headers |-> headers,
                             body |-> SentBody(SearchPayload(data.keywords, cfg.ASSOCIATE_TAG))])
    /\ \E o \in UpstreamOutcomes : upstream' = o
    /\ pc' = "posted"
    /\ UNCHANGED <<clock, sg, cfg, log, data, headers, signedBody, resp>>

\* lines 140-175
HandleResponse ==
    /\ pc = "posted"
    /\ \E lib \in BOOLEAN :
          LET r == AfterPost(upstream, PrimeOnlyOf(data), lib)
          IN  resp' = r.resp /\ log' = log \o r.prints
    /\ pc' = "done"
    /\ UNCHANGED <<clock, sg, cfg, data, headers, signedBody, sent, upstream>>

---------------------------------------------------------------------------
(* Specifications *)

IdleHandler ==
    /\ data = ObjectBody(FALSE, <<>>, FALSE, FALSE)
    /\ headers = EmptyMap
    /\ signedBody = <<>>
    /\ sent = <<>>
    /\ upstream = NoUpstream
    /\ resp = NoResp

\* the process before app.py is imported, for any environment
Init ==
    /\ clock = 0
    /\ sg = [c \in Calls |-> IdleFrame]
    /\ cfg \in Configs
    /\ log = <<>>
    /\ pc = "import"
    /\ IdleHandler

Next == Startup \/ Receive \/ Validate \/ Sign \/ Post \/ HandleResponse

Spec == Init /\ [][Next]_vars

\* the signer called concurrently, by any callers, while the clock runs
InitSign ==
    /\ clock = 0
    /\ sg = [c \in Calls |-> IdleFrame]
    /\ cfg = [ASSOCIATE_TAG |-> Some(AssociateTag),
              ACCESS_KEY_ID |-> Some(AccessKeyOfLen(MaxKeyLen)),
              SECRET_ACCESS_KEY |-> Some(SecretKey)]
    /\ log = StartupLog(cfg)
    /\ pc = "idle"
    /\ IdleHandler

NextSign ==
    \/ Tick
    \/ \E c \in Calls : SignEnter(c)
    \/ \E c \in Calls : SignReadClock(c)
    \/ \E c \in Calls : SignFormat(c)
    \/ \E c \in Calls : SignCompute(c)
    \/ \E c \in Calls : SignReturn(c)

SpecSign == InitSign /\ [][NextSign]_vars

---------------------------------------------------------------------------
(* Properties *)

Returned(c) == sg[c].pc = "returned"

\* the request reached requests.post
Posted == sent # <<>>

\* ---- C1 ----
\* C1: the body handed to requests.post is the very string whose SHA-256 digest
\* the signer put into the canonical request (the compact serialization).
C1_SentBodyIsSignedBody ==
    Posted => \A i \in 1..Len(sent) : sent[i].body = signedBody

\* ---- C2 ----
\* the claim's filter: the first listing of a non-empty Offers.Listings is prime eligible
FirstListingPrime(it) ==
    /\ it.hasOffers /\ it.hasListings /\ Len(it.Listings) >= 1
    /\ it.Listings[1].hasIsPrimeEligible /\ it.Listings[1].IsPrimeEligible = TRUE

ExpectedItems(items, primeOnly) ==
    LET Keep(it) == primeOnly => FirstListingPrime(it)
    IN  SelectSeq(items, Keep)

\* the upstream answered {SearchResult: {Items: [...]}} and nothing was raised
GotItemList ==
    /\ pc = "done" /\ Posted
    /\ ~upstream.transportError /\ ~RaisesForStatus(upstream.status)
    /\ upstream.body.json /\ upstream.body.shape = "object"
    /\ upstream.body.hasSearchResult /\ upstream.body.hasItems

\* C2: for an upstream {SearchResult: {Items}} the returned Items are exactly the
\* upstream items that pass the filter, in upstream order (primeOnly true, given or
\* by default: first listing prime eligible; primeOnly false: all), and
\* TotalFilteredCount is their number.
C2_FilterExact ==
    GotItemList =>
        /\ resp.kind = "items" /\ resp.status = 200
        /\ resp.Items = ExpectedItems(upstream.body.Items,
                                      IF data.hasPrimeOnly THEN data.primeOnly ELSE TRUE)
        /\ resp.TotalFilteredCount = Len(resp.Items)

\* a prime-only request that kept one item and dropped another whose first listing is
\* not prime eligible although a later one is
C2_Witness ==
    /\ GotItemList /\ data.hasPrimeOnly /\ data.primeOnly
    /\ Len(upstream.body.Items) >= 2 /\ Len(resp.Items) = 1
    /\ \E i \in 1..Len(upstream.body.Items) :
          LET it == upstream.body.Items[i]
          IN  Len(it.Listings) = 2 /\ ~FirstListingPrime(it)

\* ---- C3 ----
\* the header mapping of section 4.1 of the specification, steps 1-10, for the clock
\* reading t
RefHeaders(in, t) ==
    LET amzdate == strftime_amz(t)
        datestamp == strftime_date(t)
        nl == <<"\n">>
        canonicalHeaders == <<"host:">> \o in.host \o nl \o <<"x-amz-date:">> \o amzdate \o nl
        payloadHash == sha256_hexdigest(json_dumps(in.payload, ",", ":"))
        canonicalRequest ==
            <<"POST">> \o nl \o in.api_path \o nl \o nl \o canonicalHeaders \o nl
                \o <<"host;x-amz-date">> \o nl \o payloadHash
        scope == datestamp \o <<"/">> \o in.region \o <<"/">> \o in.service
                    \o <<"/">> \o <<"aws4_request">>
        stringToSign ==
            <<"AWS4-HMAC-SHA256">> \o nl \o amzdate \o nl \o scope \o nl
                \o sha256_hexdigest(canonicalRequest)
        kDate == hmac_digest(<<"AWS4">> \o in.secret_key, datestamp)
        kRegion == hmac_digest(kDate, in.region)
        kService == hmac_digest(kRegion, in.service)
        kSigning == hmac_digest(kService, <<"aws4_request">>)
        sig == hmac_hexdigest(kSigning, stringToSign)
    IN  [k \in {"Content-Type", "X-Amz-Date", "X-Amz-Target", "Authorization", "Host"} |->
            CASE k = "Content-Type" -> <<"application/json; charset=utf-8">>
              [] k = "X-Amz-Date" -> amzdate
              [] k = "X-Amz-Target" -> in.service \o <<".SearchItems">>
              [] k = "Authorization" ->
                    <<"AWS4-HMAC-SHA256", " ", "Credential=">> \o in.access_key \o <<"/">>
                        \o scope \o <<", ", "SignedHeaders=", "host;x-amz-date", ", ",
                                      "Signature=">> \o sig
              [] k = "Host" -> in.host]

\* C3: the returned headers are the reference construction for the invocation's
\* arguments and its one clock reading: exactly the five keys, the Authorization value
\* with the 4-step binary-keyed HMAC chain, date stamp and X-Amz-Date of the same reading.
C3_HeadersAreReference ==
    \A c \in Calls :
        Returned(c) =>
            /\ DOMAIN sg[c].headers =
                    {"Content-Type", "X-Amz-Date", "X-Amz-Target", "Authorization", "Host"}
            /\ sg[c].headers = RefHeaders(sg[c].in, sg[c].t)

\* an invocation returned after the calendar day changed under it
C3_Witness ==
    \E c \in Calls : Returned(c) /\ DayOf(clock) # DayOf(sg[c].t)

\* ---- C7 ----
\* C7: two invocations with the same arguments and the same clock reading return
\* identical header mappings, however they interleave with each other and the clock.
C7_Deterministic ==
    \A c1, c2 \in Calls :
        (Returned(c1) /\ Returned(c2) /\ sg[c1].in = sg[c2].in /\ sg[c1].t = sg[c2].t)
            => sg[c1].headers = sg[c2].headers

\* two invocations with equal arguments and equal reading, finished on a later day
C7_Witness ==
    \E c1, c2 \in Calls :
        /\ c1 # c2 /\ Returned(c1) /\ Returned(c2)
        /\ sg[c1].in = sg[c2].in /\ sg[c1].t = sg[c2].t
        /\ DayOf(clock) # DayOf(sg[c1].t)

\* ---- C8 ----
\* C8: two invocations that agree on everything but (a) the serialized payload,
\* (b) the URI path or (c) the timestamp (the X-Amz-Date string) have different signatures.
C8_SignatureSensitive ==
    \A c1, c2 \in Calls :
        LET a == sg[c1]
            b == sg[c2]
        IN  (Returned(c1) /\ Returned(c2)) =>
                /\ ( /\ [a.in EXCEPT !.payload = b.in.payload] = b.in
                     /\ a.amz_date = b.amz_date
                     /\ a.payload_str # b.payload_str ) => a.signature # b.signature
                /\ ( /\ [a.in EXCEPT !.api_path = b.in.api_path] = b.in
                     /\ a.amz_date = b.amz_date
                     /\ a.in.api_path # b.in.api_path ) => a.signature # b.signature
                /\ (a.in = b.in /\ a.amz_date # b.amz_date) => a.signature # b.signature

\* two finished invocations in the same second that differ in the payload alone
C8_Witness ==
    \E c1, c2 \in Calls :
        /\ Returned(c1) /\ Returned(c2)
        /\ sg[c1].in.payload # sg[c2].in.payload
        /\ [sg[c1].in EXCEPT !.payload = sg[c2].in.payload] = sg[c2].in
        /\ sg[c1].amz_date = sg[c2].amz_date
        /\ sg[c1].signature # sg[c2].signature

\* ---- C4 ----
\* what kind of answer the client got: its status and the fixed text of its message
ErrorKind(r) == <<r.kind, r.status, IF r.error = <<>> THEN "" ELSE Head(r.error)>>

\* C4: the answer to a transport failure differs in kind from every answer the handler
\* gives when the upstream answered with an error status.
C4_TransportFailureDistinct ==
    (pc = "done" /\ Posted /\ upstream.transportError) =>
        \A o \in UpstreamOutcomes : \A lib \in BOOLEAN :
            (~o.transportError /\ o.status # OkStatus) =>
                ErrorKind(AfterPost(o, PrimeOnlyOf(data), lib).resp) # ErrorKind(resp)

\* ---- C5 ----
\* C5: an upstream error status is answered with status 500 and an error message:
\* the upstream's own message when its JSON body has Errors, the generic failure
\* message otherwise, whatever the Errors list holds.
C5_UpstreamErrorSurfaced ==
    (pc = "done" /\ Posted /\ ~upstream.transportError /\ upstream.status # OkStatus) =>
        /\ resp.kind = "error" /\ resp.status = 500
        /\ IF upstream.body.json /\ upstream.body.shape = "object" /\ upstream.body.hasErrors
           THEN (upstream.body.Errors # <<>> /\ upstream.body.Errors[1].hasMessage)
                    => resp.error = <<"Amazon API Error: ">> \o upstream.body.Errors[1].Message
           ELSE Head(resp.error) = "Failed to connect to Amazon API or unhandled API error: "

\* ---- C6 ----
\* C6: no printed line contains the whole access key identifier or the whole secret key.
C6_LogHidesCredentials ==
    \A i \in 1..Len(log) :
        /\ Truthy(cfg.ACCESS_KEY_ID) => ~Contains(log[i], cfg.ACCESS_KEY_ID.v)
        /\ Truthy(cfg.SECRET_ACCESS_KEY) => ~Contains(log[i], cfg.SECRET_ACCESS_KEY.v)

\* ---- C9 ----
C9_State ==
    /\ (pc = "done" /\ data.kind = "object" /\ (~data.hasKeywords \/ data.keywords = <<>>))
            => /\ resp = ErrorResponse(400, <<"Keywords are required.">>)
               /\ headers = EmptyMap /\ ~Posted
    /\ Len(sent) <= 1
    /\ Posted => /\ DOMAIN headers # {}
                 /\ sent[1].headers = headers

C10_AlwaysOwnResponse ==
    pc = "done" =>
        \/ resp.kind = "items" /\ resp.status = 200
        \/ resp.kind = "error" /\ resp.status \in {400, 500}

=============================================================================
